---- MODULE Spec2Model ----
(***************************************************************************)
(* A model of the punter of rinon/icfp2017 (src/src/punter.rs): the graph  *)
(* index and distance oracle built by Punter::new, the authoritative Board *)
(* mutated by process_turn, the simulation harness (InternalGameState),    *)
(* and the MCTS tree and driver behind make_move.                          *)
(*                                                                         *)
(* Conventions.  Vec<T> indexed by a SiteIdx, RiverIdx or PunterId is a    *)
(* function on 0..n-1, so every index of the model is the index of the     *)
(* code.  Option<T> is T or None.  The Rc/Weak node graph is an arena: a   *)
(* sequence of nodes, a node named by its position, the root at 1.  An f64 *)
(* score is an integer number of halves (exact for 2 or 3 punters).  A     *)
(* panic (assert!, unwrap of None, index out of range) sets `panic` to its *)
(* reason and ends the behaviour.                                          *)
(***************************************************************************)
EXTENDS Integers, Sequences, FiniteSets, TLC

VARIABLES
    input,            \* Input without the rivers: punter, punters, sites, mines
    rivers,           \* input.map.rivers: the authoritative Board
    site_index,       \* Punter.site_index
    edges,            \* Punter.edges
    shortest_paths,   \* Punter.shortest_paths
    ai,               \* Punter.ai
    binary_search_impl, \* the slice::binary_search_by_key of the build
    overflow_checks,  \* whether the build panics on integer overflow
    panic,            \* "none", or the reason the process aborted
    pc,               \* position of the caller / of make_move
    timeout,          \* make_move's timeout argument (seconds)
    elapsed,          \* begin_time.elapsed() in milliseconds
    iterations,       \* move_mcts: iterations
    g_status,         \* InternalGameState.status
    g_current_punter, \* InternalGameState.current_punter
    g_rivers,         \* InternalGameState.rivers
    g_available,      \* InternalGameState.available_rivers
    g_scores,         \* InternalGameState.scores
    nodes,            \* the MCTS tree (arena of MCTSNode)
    node_rc,          \* select: node_rc
    prev_rc,          \* select: prev_rc
    leaf,             \* step: leaf
    new_child,        \* step: new_child
    score,            \* step: the score handed to backpropagate
    depth,            \* simulate: the loop counter
    applied,          \* history: the actions given to the harness since reset
    result            \* the protocol::Move make_move returned

vars == <<input, rivers, site_index, edges, shortest_paths, ai,
          binary_search_impl, overflow_checks, panic, pc,
          timeout, elapsed, iterations, g_status, g_current_punter, g_rivers,
          g_available, g_scores, nodes, node_rc, prev_rc, leaf, new_child,
          score, depth, applied, result>>

setup_vars == <<input, site_index, edges, shortest_paths, ai, binary_search_impl,
                overflow_checks>>
game_vars == <<g_status, g_current_punter, g_rivers, g_available, g_scores>>
step_vars == <<node_rc, prev_rc, leaf, new_child, score, depth>>

----------------------------------------------------------------------------
(* Values                                                                  *)

\* Option::None (an unset owner, renter, play, parent or lookup result).
None == -1

\* usize::max_value(), the distance oracle's infinity.  TLC's integers are
\* 32 bits wide; the value is only ever compared for equality.
usize_max == 2147483647

SIMULATION_DEPTH == 1000

\* The milliseconds of one second and the safety margin of move_mcts.
MILLIS_PER_SEC == 1000
SAFETY_MARGIN == 150

\* The timeout the binaries pass to make_move, in seconds.
DEFAULT_TIMEOUT == 1

Vec0(s) == [i \in 0..(Len(s) - 1) |-> s[i + 1]]
VecLen(v) == Cardinality(DOMAIN v)

NewRiver(s, t) ==
    [source |-> s, target |-> t, owner |-> None, renter |-> None,
     source_idx |-> 0, target_idx |-> 0]

Ok(v) == [panic |-> "none", val |-> v]
Err(msg) == [panic |-> msg, val |-> None]

----------------------------------------------------------------------------
(* River                                                                   *)

add_owner_overwrite(river, punter) ==
    Ok([river EXCEPT !.owner = punter])

add_owner(river, punter) ==
    IF river.owner # None
    THEN IF river.renter # None
         THEN Err("add_owner: assert renter.is_none()")
         ELSE Ok([river EXCEPT !.renter = punter])
    ELSE Ok([river EXCEPT !.owner = punter])

\* The assert of the else branch cannot fail: every caller passes a site
\* from whose list in edges the river was taken.
other_index(river, site) ==
    IF site = river.source_idx THEN river.target_idx ELSE river.source_idx

----------------------------------------------------------------------------
(* Input: the graph index and the distance oracle                          *)

river_other_index(rs, river, site) == other_index(rs[river], site)

\* sites.iter().enumerate().map(|(idx, site)| (site.id, idx)).collect():
\* a later entry of the same id replaces the earlier one.
SiteIndexOf(sites) ==
    LET ids == {sites[i] : i \in DOMAIN sites}
    IN [id \in ids |->
          CHOOSE i \in DOMAIN sites :
              /\ sites[i] = id
              /\ \A j \in DOMAIN sites : sites[j] = id => j <= i]

index_rivers(rs, sidx) ==
    [r \in DOMAIN rs |->
        [rs[r] EXCEPT !.source_idx = sidx[rs[r].source],
                      !.target_idx = sidx[rs[r].target]]]

\* The pushes of compute_edges onto edges[site], in river order.
RECURSIVE Incident(_, _, _)
Incident(rs, site, idx) ==
    IF idx >= VecLen(rs) THEN <<>>
    ELSE (IF rs[idx].source_idx = site THEN <<idx>> ELSE <<>>)
         \o (IF rs[idx].target_idx = site THEN <<idx>> ELSE <<>>)
         \o Incident(rs, site, idx + 1)

\* sort_by_key is a stable sort: insertion after the last entry whose key is
\* not greater.
RECURSIVE InsertByKey(_, _, _, _)
InsertByKey(rs, site, sorted, r) ==
    IF sorted = <<>> THEN <<r>>
    ELSE IF river_other_index(rs, Head(sorted), site) <= river_other_index(rs, r, site)
         THEN <<Head(sorted)>> \o InsertByKey(rs, site, Tail(sorted), r)
         ELSE <<r>> \o sorted

RECURSIVE SortByKey(_, _, _, _)
SortByKey(rs, site, todo, sorted) ==
    IF todo = <<>> THEN sorted
    ELSE SortByKey(rs, site, Tail(todo), InsertByKey(rs, site, sorted, Head(todo)))

compute_edges(rs, sidx) ==
    [site \in 0..(Cardinality(DOMAIN sidx) - 1) |->
        SortByKey(rs, site, Incident(rs, site, 0), <<>>)]

\* The inner for loop of the breadth-first search: the rivers of one site.
RECURSIVE VisitNeighbors(_, _, _, _, _)
VisitNeighbors(rs, site_idx, ridxs, que, mine_dists) ==
    IF ridxs = <<>> THEN [que |-> que, mine_dists |-> mine_dists]
    ELSE LET neighbor == other_index(rs[Head(ridxs)], site_idx)
         IN IF mine_dists[neighbor] = usize_max
            THEN VisitNeighbors(rs, site_idx, Tail(ridxs),
                     Append(que, neighbor),
                     [mine_dists EXCEPT ![neighbor] = mine_dists[site_idx] + 1])
            ELSE VisitNeighbors(rs, site_idx, Tail(ridxs), que, mine_dists)

RECURSIVE MineDists(_, _, _, _)
MineDists(rs, es, que, mine_dists) ==
    IF que = <<>> THEN mine_dists
    ELSE LET site_idx == Head(que)
             v == VisitNeighbors(rs, site_idx, es[site_idx], Tail(que), mine_dists)
         IN MineDists(rs, es, v.que, v.mine_dists)

compute_shortest_paths_from_one(inp, rs, es, sidx) ==
    [m \in DOMAIN inp.mines |->
        LET mine_idx == sidx[inp.mines[m]]
        IN MineDists(rs, es, <<mine_idx>>,
               [s \in DOMAIN inp.sites |-> IF s = mine_idx THEN 1 ELSE usize_max])]

compute_shortest_paths(inp, rs, es, sidx) ==
    [m \in DOMAIN inp.mines |->
        LET mine_idx == sidx[inp.mines[m]]
        IN MineDists(rs, es, <<mine_idx>>,
               [s \in DOMAIN inp.sites |-> IF s = mine_idx THEN 0 ELSE usize_max])]

----------------------------------------------------------------------------
(* Punter: lookup and the Board                                            *)

id == input.punter

\* slice::binary_search_by_key on a list of keys, as a 0-based position or
\* None.  The standard library has shipped two algorithms, which differ in
\* the position they return when several entries carry the key: one returns
\* at the first probe that compares equal, the other narrows to one entry
\* without an early return.  binary_search_impl names the one of the build.
RECURSIVE BinarySearchEarlyReturn(_, _, _, _)
BinarySearchEarlyReturn(keys, target, left, right) ==
    IF left >= right THEN None
    ELSE LET mid == left + ((right - left) \div 2)
         IN IF keys[mid + 1] < target
            THEN BinarySearchEarlyReturn(keys, target, mid + 1, right)
            ELSE IF keys[mid + 1] > target
                 THEN BinarySearchEarlyReturn(keys, target, left, mid)
                 ELSE mid

RECURSIVE BinarySearchBranchless(_, _, _, _)
BinarySearchBranchless(keys, target, base, size) ==
    IF size = 0 THEN None
    ELSE IF size > 1
         THEN LET half == size \div 2
                  mid == base + half
              IN BinarySearchBranchless(keys, target,
                     IF keys[mid + 1] > target THEN base ELSE mid, size - half)
         ELSE IF keys[base + 1] = target THEN base ELSE None

binary_search_by_key_one_probe(impl, keys, target) ==
    IF keys = <<>> THEN None
    ELSE IF keys[(Len(keys) \div 2) + 1] = target THEN Len(keys) \div 2
    ELSE None

binary_search_by_key(impl, keys, target) ==
    IF impl = "early_return"
    THEN BinarySearchEarlyReturn(keys, target, 0, Len(keys))
    ELSE BinarySearchBranchless(keys, target, 0, Len(keys))

find_river(impl, sidx, es, rs, source, target) ==
    IF source \notin DOMAIN sidx \/ target \notin DOMAIN sidx
    THEN Err("find_river: site_index has no such key")
    ELSE LET source_idx == sidx[source]
             target_idx == sidx[target]
             keys == [i \in DOMAIN es[source_idx] |->
                        river_other_index(rs, es[source_idx][i], source_idx)]
             pos == binary_search_by_key(impl, keys, target_idx)
         IN IF source_idx \notin DOMAIN es
            THEN Err("find_river: index out of bounds")
            ELSE IF pos = None THEN Ok(None) ELSE Ok(es[source_idx][pos + 1])

add_move_skip_unknown(impl, sidx, es, rs, punter, source, target) ==
    LET f == find_river(impl, sidx, es, rs, source, target)
    IN IF f.panic # "none" \/ f.val = None THEN [panic |-> "none", rivers |-> rs]
       ELSE LET a == add_owner(rs[f.val], punter)
            IN IF a.panic # "none" THEN [panic |-> a.panic, rivers |-> rs]
               ELSE [panic |-> "none", rivers |-> [rs EXCEPT ![f.val] = a.val]]

\* add_move on a Board rs: the Board it leaves, or the panic.
add_move(impl, sidx, es, rs, punter, source, target) ==
    LET f == find_river(impl, sidx, es, rs, source, target)
    IN IF f.panic # "none" THEN [panic |-> f.panic, rivers |-> rs]
       ELSE IF f.val = None
            THEN [panic |-> "add_move: unwrap on None", rivers |-> rs]
            ELSE LET a == add_owner(rs[f.val], punter)
                 IN IF a.panic # "none" THEN [panic |-> a.panic, rivers |-> rs]
                    ELSE [panic |-> "none", rivers |-> [rs EXCEPT ![f.val] = a.val]]

\* A reported move.
Claim(p, s, t) == [kind |-> "claim", punter |-> p, route |-> <<s, t>>]
OptionMove(p, s, t) == [kind |-> "option", punter |-> p, route |-> <<s, t>>]
Splurge(p, route) == [kind |-> "splurge", punter |-> p, route |-> route]
Pass(p) == [kind |-> "pass", punter |-> p, route |-> <<>>]

\* The hops of a splurge from position i of the route on, each an add_move.
RECURSIVE SplurgeFrom(_, _, _, _, _, _, _)
SplurgeFrom(impl, sidx, es, out, punter, route, i) ==
    IF i >= Len(route) \/ out.panic # "none" THEN out
    ELSE SplurgeFrom(impl, sidx, es,
             add_move(impl, sidx, es, out.rivers, punter, route[i], route[i + 1]),
             punter, route, i + 1)

\* One arm of the match of process_turn.
ProcessMove(impl, sidx, es, rs, m) ==
    CASE m.kind \in {"claim", "option"} ->
            add_move(impl, sidx, es, rs, m.punter, m.route[1], m.route[2])
      [] m.kind = "splurge" ->
            IF m.route = <<>>
            THEN [panic |-> "process_turn: route[0] out of range", rivers |-> rs]
            ELSE SplurgeFrom(impl, sidx, es, [panic |-> "none", rivers |-> rs],
                             m.punter, m.route, 1)
      [] OTHER -> [panic |-> "none", rivers |-> rs]

RECURSIVE ProcessMoves(_, _, _, _, _)
ProcessMoves(impl, sidx, es, out, moves) ==
    IF moves = <<>> \/ out.panic # "none" THEN out
    ELSE ProcessMoves(impl, sidx, es,
             ProcessMove(impl, sidx, es, out.rivers, Head(moves)), Tail(moves))

process_turn(impl, sidx, es, rs, moves) ==
    ProcessMoves(impl, sidx, es, [panic |-> "none", rivers |-> rs], moves)

\* The inner for loop of compute_scores: the rivers of one site that the
\* punter owns or rents.
RECURSIVE ScoreNeighbors(_, _, _, _, _, _)
ScoreNeighbors(rs, punter, site_idx, ridxs, que, visited) ==
    IF ridxs = <<>> THEN [que |-> que, visited |-> visited]
    ELSE LET river == rs[Head(ridxs)]
             neighbor == other_index(river, site_idx)
         IN IF river.owner # punter /\ river.renter # punter
            THEN ScoreNeighbors(rs, punter, site_idx, Tail(ridxs), que, visited)
            ELSE IF ~visited[neighbor]
                 THEN ScoreNeighbors(rs, punter, site_idx, Tail(ridxs),
                          Append(que, neighbor), [visited EXCEPT ![neighbor] = TRUE])
                 ELSE ScoreNeighbors(rs, punter, site_idx, Tail(ridxs), que, visited)

\* The while loop of compute_scores for one punter and one mine: the sum it
\* adds to scores[punter], or the panic of its assert.
RECURSIVE MineScore(_, _, _, _, _, _, _)
MineScore(es, rs, dists, punter, que, visited, sum) ==
    IF que = <<>> THEN Ok(sum)
    ELSE LET site_idx == Head(que)
             dist == dists[site_idx]
             v == ScoreNeighbors(rs, punter, site_idx, es[site_idx], Tail(que), visited)
         IN IF dist = usize_max
            THEN Err("compute_scores: assert dist != usize::max_value()")
            ELSE MineScore(es, rs, dists, punter, v.que, v.visited, sum + dist * dist)

RECURSIVE PunterScore(_, _, _, _, _, _, _, _)
PunterScore(inp, sidx, es, sp, rs, punter, mine_idx, sum) ==
    IF mine_idx >= VecLen(inp.mines) THEN Ok(sum)
    ELSE LET mine_site_idx == sidx[inp.mines[mine_idx]]
             m == MineScore(es, rs, sp[mine_idx], punter, <<mine_site_idx>>,
                      [x \in DOMAIN inp.sites |-> x = mine_site_idx], sum)
         IN IF m.panic # "none" THEN m
            ELSE PunterScore(inp, sidx, es, sp, rs, punter, mine_idx + 1, m.val)

compute_scores_owner_only(inp, sidx, es, sp, rs) ==
    LET owned == [r \in DOMAIN rs |-> [rs[r] EXCEPT !.renter = None]]
        per == [punter \in 0..(inp.punters - 1) |->
                   PunterScore(inp, sidx, es, sp, owned, punter, 0, 0)]
    IN IF \E punter \in DOMAIN per : per[punter].panic # "none"
       THEN Err("compute_scores: assert dist != usize::max_value()")
       ELSE Ok([punter \in DOMAIN per |-> per[punter].val])

compute_scores(inp, sidx, es, sp, rs) ==
    LET per == [punter \in 0..(inp.punters - 1) |->
                   PunterScore(inp, sidx, es, sp, rs, punter, 0, 0)]
    IN IF \E punter \in DOMAIN per : per[punter].panic # "none"
       THEN Err("compute_scores: assert dist != usize::max_value()")
       ELSE Ok([punter \in DOMAIN per |-> per[punter].val])

\* move_random: a claim of one of the rivers without an owner.
Play(river, punter) ==
    [punter |-> punter, source |-> river.source, target |-> river.target]

move_random(rs, me) ==
    LET choices == {r \in DOMAIN rs : rs[r].owner = None}
    IN IF choices = {} THEN {Err("move_random: unwrap on None")}
       ELSE {Ok(Play(rs[r], me)) : r \in choices}

\* The deadline of move_mcts in milliseconds.
Budget(t) == t * MILLIS_PER_SEC - SAFETY_MARGIN

\* u64::max_value(), at the width of TLC's integers.
u64_max == usize_max

\* (timeout as u64 * 1000) - 150 as the build computes it in u64: below zero
\* the subtraction panics with overflow checks and wraps around without.
deadline_millis(t, checks) ==
    IF t * MILLIS_PER_SEC >= SAFETY_MARGIN THEN Ok(Budget(t))
    ELSE IF checks THEN Err("move_mcts: attempt to subtract with overflow")
    ELSE Ok(u64_max - (SAFETY_MARGIN - t * MILLIS_PER_SEC) + 1)

----------------------------------------------------------------------------
(* InternalGameState: the simulation harness                               *)

GameState(status, current_punter, rs, available, scores) ==
    [status |-> status, current_punter |-> current_punter, rivers |-> rs,
     available_rivers |-> available, scores |-> scores]

\* InternalGameState::new
new_game(me) == GameState("NotStarted", me, <<>>, {}, <<>>)

reset_game_keep_rivers(g, input_rivers, me) ==
    [g EXCEPT !.status = "Playing",
              !.current_punter = me,
              !.available_rivers = {x \in DOMAIN input_rivers :
                                       input_rivers[x].owner = None}]

reset_game_keep_status(g, input_rivers, me) ==
    [g EXCEPT !.current_punter = me,
              !.rivers = input_rivers,
              !.available_rivers = {x \in DOMAIN input_rivers :
                                       input_rivers[x].owner = None}]

\* InternalGameState::reset_game
reset_game(g, input_rivers, me) ==
    [g EXCEPT !.status = "Playing",
              !.current_punter = me,
              !.rivers = input_rivers,
              !.available_rivers = {x \in DOMAIN input_rivers :
                                       input_rivers[x].owner = None}]

available_actions(g) ==
    IF g.status = "NotStarted"
    THEN Err("available_actions: assert status != NotStarted")
    ELSE Ok(g.available_rivers)

game_make_move_keep_available(g, river, punters) ==
    LET a == add_owner(g.rivers[river], g.current_punter)
    IN [panic |-> a.panic,
        val |-> [g EXCEPT !.rivers[river] = a.val,
                          !.current_punter = (g.current_punter + 1) % punters]]

game_make_move_never_finished(g, river, punters) ==
    IF g.status # "Playing"
    THEN [panic |-> "make_move: assert status == Playing", val |-> g]
    ELSE LET a == add_owner(g.rivers[river], g.current_punter)
         IN IF a.panic # "none" THEN [panic |-> a.panic, val |-> g]
            ELSE Ok([g EXCEPT !.rivers[river] = a.val,
                              !.available_rivers = g.available_rivers \ {river},
                              !.current_punter = (g.current_punter + 1) % punters])

\* Game::make_move of the harness
game_make_move(g, river, punters) ==
    IF g.status # "Playing"
    THEN [panic |-> "make_move: assert status == Playing", val |-> g]
    ELSE LET a == add_owner(g.rivers[river], g.current_punter)
             available == g.available_rivers \ {river}
         IN IF a.panic # "none" THEN [panic |-> a.panic, val |-> g]
            ELSE Ok([g EXCEPT !.rivers[river] = a.val,
                              !.available_rivers = available,
                              !.current_punter = (g.current_punter + 1) % punters,
                              !.status = IF available = {} THEN "Finished"
                                         ELSE g.status])

\* total of Game::score: the sum over the other punters of my_score - score.
RECURSIVE ScoreTotal(_, _, _)
ScoreTotal(scores, me, i) ==
    IF i >= VecLen(scores) THEN 0
    ELSE (IF i # me THEN scores[me] - scores[i] ELSE 0) + ScoreTotal(scores, me, i + 1)

game_score_total(g, inp, sidx, es, sp) ==
    LET c == compute_scores(inp, sidx, es, sp, g.rivers)
    IN IF g.status = "NotStarted" \/ c.panic # "none"
       THEN [panic |-> "score: aborted", val |-> 0, scores |-> g.scores]
       ELSE [panic |-> "none", val |-> 2 * ScoreTotal(c.val, inp.punter, 0),
             scores |-> c.val]

\* Game::score: the scores buffer it fills and the f64 it returns, in halves.
game_score(g, inp, sidx, es, sp) ==
    IF g.status = "NotStarted"
    THEN [panic |-> "score: assert status != NotStarted", val |-> 0, scores |-> g.scores]
    ELSE LET c == compute_scores(inp, sidx, es, sp, g.rivers)
         IN IF c.panic # "none"
            THEN [panic |-> c.panic, val |-> 0, scores |-> g.scores]
            ELSE [panic |-> "none",
                  val |-> (2 * ScoreTotal(c.val, inp.punter, 0)) \div (VecLen(c.val) - 1),
                  scores |-> c.val]

\* The harness of the model's state, and its assignment.
G == GameState(g_status, g_current_punter, g_rivers, g_available, g_scores)

SetGame(g) ==
    /\ g_status' = g.status
    /\ g_current_punter' = g.current_punter
    /\ g_rivers' = g.rivers
    /\ g_available' = g.available_rivers
    /\ g_scores' = g.scores

----------------------------------------------------------------------------
(* MCTSNode                                                                *)

Root == 1

new_node_visited(play) ==
    [play |-> play, children |-> <<>>, parent |-> None, status |-> "Expandable",
     score |-> 0, count |-> 1]

\* MCTSNode::new
new_node(play) ==
    [play |-> play, children |-> <<>>, parent |-> None, status |-> "Expandable",
     score |-> 0, count |-> 0]

\* select_uct returns None for a node without children and one of the
\* children otherwise: the child whose f64 value score/count +
\* c*sqrt(2*ln(count of the node)/count) is greatest.  The model keeps no
\* logarithms and square roots: any child may be the one.
select_uct(ns, n) ==
    IF Len(ns[n].children) = 0 THEN {None}
    ELSE {ns[n].children[i] : i \in 1..Len(ns[n].children)}

select_next_any(ns, n) == select_uct(ns, n)

\* The match on the status in select.
select_next(ns, n) ==
    IF ns[n].status = "Expanded" THEN select_uct(ns, n) ELSE {None}

untried_moves_all(ns, n, moves) == moves

\* The moves expand may still draw at a node: available minus the children's.
untried_moves(ns, n, moves) ==
    moves \ {ns[ns[n].children[i]].play : i \in 1..Len(ns[n].children)}

expand_early(ns, n, moves, new_child_move) ==
    IF moves = {}
    THEN [panic |-> "none", child |-> None,
          nodes |-> [ns EXCEPT ![n].status = "Done"]]
    ELSE [panic |-> "none", child |-> Len(ns) + 1,
          nodes |-> Append(
              [ns EXCEPT ![n].status =
                             IF Cardinality(untried_moves(ns, n, moves)) <= 2
                             THEN "Expanded" ELSE ns[n].status,
                         ![n].children = Append(ns[n].children, Len(ns) + 1)],
              [new_node(new_child_move) EXCEPT !.parent = n])]

\* expand with the drawn move: the tree with the new child pushed (linked to
\* the leaf as step does right after), or the leaf marked Done.
expand(ns, n, moves, new_child_move) ==
    IF moves = {}
    THEN [panic |-> "none", child |-> None,
          nodes |-> [ns EXCEPT ![n].status = "Done"]]
    ELSE LET available_moves == untried_moves(ns, n, moves)
         IN IF available_moves = {}
            THEN [panic |-> "expand: assert available_moves.len() > 0",
                  child |-> None,
                  nodes |-> ns]
            ELSE [panic |-> "none", child |-> Len(ns) + 1,
                  nodes |-> Append(
                      [ns EXCEPT ![n].status =
                                     IF Cardinality(available_moves) = 1
                                     THEN "Expanded" ELSE ns[n].status,
                                 ![n].children = Append(ns[n].children, Len(ns) + 1)],
                      [new_node(new_child_move) EXCEPT !.parent = n])]

backpropagate_focus_only(ns, n, sc) ==
    [ns EXCEPT ![n].count = ns[n].count + 1, ![n].score = ns[n].score + sc]

\* backpropagate: the node and each node on its parent chain.
RECURSIVE backpropagate(_, _, _)
backpropagate(ns, n, sc) ==
    IF n = None THEN ns
    ELSE backpropagate(
             [ns EXCEPT ![n].count = ns[n].count + 1, ![n].score = ns[n].score + sc],
             ns[n].parent, sc)

best_move_by_mean(ns, n) ==
    LET kids == ns[n].children
    IN IF kids = <<>> THEN ns[n].play
       ELSE ns[kids[CHOOSE i \in 1..Len(kids) :
                \A j \in 1..Len(kids) :
                    \/ ns[kids[j]].score * ns[kids[i]].count
                           < ns[kids[i]].score * ns[kids[j]].count
                    \/ (ns[kids[j]].score * ns[kids[i]].count
                           = ns[kids[i]].score * ns[kids[j]].count /\ i <= j)]].play

\* The loop of MCTSNode::best_move from child i on.
RECURSIVE best_move_from(_, _, _, _, _)
best_move_from(ns, kids, i, best, best_value) ==
    IF i > Len(kids) THEN best
    ELSE IF best_value = None \/ ns[kids[i]].count > best_value
         THEN best_move_from(ns, kids, i + 1, ns[kids[i]].play, ns[kids[i]].count)
         ELSE best_move_from(ns, kids, i + 1, best, best_value)

\* MCTSNode::best_move before its unwrap; best_value None is NEG_INFINITY.
best_move(ns, n) == best_move_from(ns, ns[n].children, 1, ns[n].play, None)

----------------------------------------------------------------------------
(* Setups and reported moves the model draws from                          *)

\* Bounds of the model.
MaxMoves == 2      \* moves in one reported turn
MaxRoute == 3      \* sites on a splurge route

\* Three sites with referee ids that are not their indices.
ThreeSites == <<10, 20, 30>>

\* A path: one river joins 10 and 20, one joins 20 and 30.
PathRivers == <<NewRiver(10, 20), NewRiver(20, 30)>>

\* Two rivers join 10 and 20, listed in opposite directions; 30 is isolated.
ParallelRivers == <<NewRiver(10, 20), NewRiver(20, 10)>>

\* Every pair of the three sites is joined by one river.
TriangleRivers == <<NewRiver(10, 20), NewRiver(20, 30), NewRiver(30, 10)>>

\* A site id of no site.
UnknownSite == 40

MkInput(punter, punters, sites, mines) ==
    [punter |-> punter, punters |-> punters,
     sites |-> Vec0(sites), mines |-> Vec0(mines)]

Punters == 0..(input.punters - 1)
SiteIds == {input.sites[i] : i \in DOMAIN input.sites}

\* The routes of at most n sites that name no site twice in a row.
RECURSIVE Routes(_, _)
Routes(S, n) ==
    IF n = 0 THEN {<<>>}
    ELSE LET shorter == Routes(S, n - 1)
             longest == {t \in shorter : Len(t) = n - 1}
         IN shorter \cup
            {q \in {Append(r, x) : r \in longest, x \in S} :
                n = 1 \/ q[n - 1] # q[n]}

MovesOf(p) ==
    {Claim(p, s, t) : s \in SiteIds, t \in SiteIds}
    \cup {OptionMove(p, s, t) : s \in SiteIds, t \in SiteIds}
    \cup {Claim(p, UnknownSite, t) : t \in SiteIds}
    \cup {Splurge(p, r) : r \in Routes(SiteIds, MaxRoute)}
    \cup {Pass(p)}

\* The turns of at most n moves, of punters from p on: as the referee
\* reports them, at most one move of each punter, in punter order.
RECURSIVE TurnsFrom(_, _)
TurnsFrom(p, n) ==
    IF n = 0 \/ p >= input.punters THEN {<<>>}
    ELSE TurnsFrom(p + 1, n)
         \cup {<<m>> \o t : m \in MovesOf(p), t \in TurnsFrom(p + 1, n - 1)}

ReportedTurns == TurnsFrom(0, MaxMoves)

----------------------------------------------------------------------------
(* Punter::new                                                             *)

NewPunterState(inp, rs, kind) ==
    LET sidx == SiteIndexOf(inp.sites)
        irs == index_rivers(Vec0(rs), sidx)
        es == compute_edges(irs, sidx)
    IN /\ input = inp
       /\ site_index = sidx
       /\ rivers = irs
       /\ edges = es
       /\ shortest_paths = compute_shortest_paths(inp, irs, es, sidx)
       /\ ai = kind

\* Punter::new with the panics of its indexing: site_index[&id] of an id
\* that is no key, and edges[idx] of an index beyond edges.
punter_new(inp, rs) ==
    LET sidx == SiteIndexOf(inp.sites)
        len == Cardinality(DOMAIN sidx)
        irs == index_rivers(rs, sidx)
        es == compute_edges(irs, sidx)
        aborted(msg) == [panic |-> msg, site_index |-> sidx, rivers |-> rs,
                         edges |-> <<>>, shortest_paths |-> <<>>]
    IN IF \E r \in DOMAIN rs :
              rs[r].source \notin DOMAIN sidx \/ rs[r].target \notin DOMAIN sidx
       THEN aborted("index_rivers: site_index has no such key")
       ELSE IF \E r \in DOMAIN irs :
                   irs[r].source_idx >= len \/ irs[r].target_idx >= len
       THEN aborted("compute_edges: index out of bounds")
       ELSE IF \E m \in DOMAIN inp.mines : inp.mines[m] \notin DOMAIN sidx
       THEN aborted("compute_shortest_paths: site_index has no such key")
       ELSE IF \E m \in DOMAIN inp.mines : sidx[inp.mines[m]] >= len
       THEN aborted("compute_shortest_paths: index out of bounds")
       ELSE [panic |-> "none", site_index |-> sidx, rivers |-> irs, edges |-> es,
             shortest_paths |-> compute_shortest_paths(inp, irs, es, sidx)]

\* Everything of a turn that does not exist before make_move is called.
NoSearchYet ==
    /\ elapsed = 0
    /\ iterations = 0
    /\ g_status = "NotStarted"
    /\ g_current_punter = 0
    /\ g_rivers = <<>>
    /\ g_available = {}
    /\ g_scores = <<>>
    /\ nodes = <<>>
    /\ node_rc = None
    /\ prev_rc = None
    /\ leaf = None
    /\ new_child = None
    /\ score = 0
    /\ depth = 0
    /\ applied = <<>>
    /\ result = None

----------------------------------------------------------------------------
(* The Board under reported turns                                          *)

InitBoard ==
    /\ \E rs \in {PathRivers, ParallelRivers} :
           NewPunterState(MkInput(0, 2, ThreeSites, <<10>>), rs, "MCTS")
    /\ binary_search_impl \in {"early_return", "branchless"}
    /\ overflow_checks = TRUE
    /\ timeout = DEFAULT_TIMEOUT
    /\ panic = "none"
    /\ pc = "idle"
    /\ NoSearchYet

ProcessTurn ==
    /\ pc = "idle"
    /\ panic = "none"
    /\ \E moves \in ReportedTurns :
           LET out == process_turn(binary_search_impl, site_index, edges, rivers, moves)
           IN /\ rivers' = out.rivers
              /\ panic' = out.panic
    /\ UNCHANGED <<setup_vars, pc, timeout, elapsed, iterations, game_vars,
                   nodes, step_vars, applied, result>>

NextBoard == ProcessTurn

SpecBoard == InitBoard /\ [][NextBoard]_vars

----------------------------------------------------------------------------
(* Punter::new on a setup, the Board it builds, and the Scorer             *)

\* Site lists: three distinct ids, and lists that name an id twice.
RepeatedLast == <<10, 20, 20>>
RepeatedFirst == <<10, 10, 20>>
SetupSites == {ThreeSites, RepeatedLast, RepeatedFirst}

\* Two rivers join 20 and 30, after a river that joins 10 and 20.
DoubledRivers == <<NewRiver(10, 20), NewRiver(20, 30), NewRiver(20, 30)>>

\* A river from a site to itself.
LoopRivers == <<NewRiver(10, 10)>>

\* A river to a site of no id of the list.
DanglingRivers == <<NewRiver(10, UnknownSite)>>

SetupRivers ==
    {<<>>, PathRivers, ParallelRivers, DoubledRivers, LoopRivers, DanglingRivers}

SetupMines == {<<10>>, <<10, 30>>, <<UnknownSite>>}

PunterCounts == {2, 3}

InitSetup ==
    /\ \E sites \in SetupSites, mines \in SetupMines, punters \in PunterCounts :
           input = MkInput(1, punters, sites, mines)
    /\ \E rs \in SetupRivers : rivers = Vec0(rs)
    /\ site_index = <<>>
    /\ edges = <<>>
    /\ shortest_paths = <<>>
    /\ ai = "MCTS"
    /\ binary_search_impl \in {"early_return", "branchless"}
    /\ overflow_checks = TRUE
    /\ timeout = DEFAULT_TIMEOUT
    /\ panic = "none"
    /\ pc = "new"
    /\ NoSearchYet

PunterNew ==
    /\ pc = "new"
    /\ panic = "none"
    /\ LET new == punter_new(input, rivers)
       IN /\ panic' = new.panic
          /\ site_index' = new.site_index
          /\ rivers' = new.rivers
          /\ edges' = new.edges
          /\ shortest_paths' = new.shortest_paths
          /\ pc' = IF new.panic = "none" THEN "idle" ELSE pc
    /\ UNCHANGED <<input, ai, binary_search_impl, overflow_checks, timeout,
                   elapsed, iterations, game_vars, nodes, step_vars, applied,
                   result>>

\* process_turn on one reported claim.
ReportMove ==
    /\ pc = "idle"
    /\ panic = "none"
    /\ \E p \in Punters, s \in SiteIds, t \in SiteIds :
           LET out == process_turn(binary_search_impl, site_index, edges, rivers,
                                   <<Claim(p, s, t)>>)
           IN /\ rivers' = out.rivers
              /\ panic' = out.panic
    /\ UNCHANGED <<setup_vars, pc, timeout, elapsed, iterations, game_vars,
                   nodes, step_vars, applied, result>>

\* The harness is reset to the Board and scored as it is, without a playout.
ScoreBoard ==
    /\ pc = "idle"
    /\ panic = "none"
    /\ LET g == reset_game(new_game(id), rivers, id)
           sc == game_score(g, input, site_index, edges, shortest_paths)
       IN /\ SetGame([g EXCEPT !.scores = sc.scores])
          /\ panic' = sc.panic
          /\ score' = sc.val
    /\ pc' = "scored"
    /\ UNCHANGED <<setup_vars, rivers, timeout, elapsed, iterations, nodes,
                   node_rc, prev_rc, leaf, new_child, depth, applied, result>>

NextSetup ==
    \/ PunterNew
    \/ ReportMove
    \/ ScoreBoard

SpecSetup == InitSetup /\ [][NextSetup]_vars

----------------------------------------------------------------------------
(* make_move: the search driver                                            *)

\* Bounds of the search model.
StepMillis == 200       \* the wall-clock time one step takes
MaxElapsed == 1000      \* the model follows the steps begun before this time

\* The timeout argument: the default of the binaries, and the least a u8
\* holds.  The overflow checks of the build matter only where the deadline
\* overflows.
Timeouts == {0, DEFAULT_TIMEOUT}

\* The time a step may take, and the time already spent when make_move is
\* called: none, some, or the whole budget.
StepDurations == {StepMillis, 2 * StepMillis}
ElapsedAtCall == {0, 3 * StepMillis, Budget(DEFAULT_TIMEOUT)}

\* The turns the referee reports to the search model: one move of each
\* punter, in punter order.
SearchTurns ==
    { <<Pass(0), Pass(1)>>,
      <<Pass(0), Claim(1, 10, 20)>>,
      <<Claim(0, 20, 30), Pass(1)>>,
      <<Pass(0), OptionMove(1, 30, 20)>>,
      <<Splurge(0, <<20, 10, 30>>), Pass(1)>> }

InitSearch ==
    /\ \E me \in {0, 1}, kind \in {"MCTS", "Random"} :
           NewPunterState(MkInput(me, 2, ThreeSites, <<10>>), TriangleRivers, kind)
    /\ binary_search_impl = "early_return"
    /\ \E t \in Timeouts :
           /\ timeout = t
           /\ overflow_checks \in
                  IF deadline_millis(t, TRUE).panic = "none" THEN {TRUE} ELSE BOOLEAN
    /\ panic = "none"
    /\ pc = "idle"
    /\ NoSearchYet

\* One turn of the game loop up to the call of make_move: the turn is
\* received some time after turn_begin, and process_turn handles it.
ReportTurn ==
    /\ pc = "idle"
    /\ panic = "none"
    /\ \E moves \in SearchTurns :
           LET out == process_turn(binary_search_impl, site_index, edges, rivers, moves)
           IN /\ rivers' = out.rivers
              /\ panic' = out.panic
              /\ pc' = IF out.panic = "none" THEN "make_move" ELSE pc
    /\ \E e \in ElapsedAtCall : elapsed' = e
    /\ UNCHANGED <<setup_vars, timeout, iterations, game_vars, nodes, step_vars,
                   applied, result>>

\* The game loop sends the move and waits for the next turn; the tree and
\* the harness of move_mcts are dropped.
SendMove ==
    /\ pc = "returned"
    /\ panic = "none"
    /\ pc' = "idle"
    /\ elapsed' = 0
    /\ iterations' = 0
    /\ SetGame(GameState("NotStarted", 0, <<>>, {}, <<>>))
    /\ nodes' = <<>>
    /\ node_rc' = None
    /\ prev_rc' = None
    /\ leaf' = None
    /\ new_child' = None
    /\ score' = 0
    /\ depth' = 0
    /\ applied' = <<>>
    /\ result' = None
    /\ UNCHANGED <<setup_vars, rivers, panic, timeout>>

\* make_move with the Random punter: move_random and the claim built of it.
MakeMoveRandom ==
    /\ pc = "make_move"
    /\ panic = "none"
    /\ ai = "Random"
    /\ \E play \in move_random(rivers, id) :
           /\ panic' = play.panic
           /\ result' = IF play.panic = "none"
                        THEN Claim(play.val.punter, play.val.source, play.val.target)
                        ELSE result
           /\ pc' = IF play.panic = "none" THEN "returned" ELSE pc
    /\ UNCHANGED <<setup_vars, rivers, timeout, elapsed, iterations, game_vars,
                   nodes, step_vars, applied>>

\* make_move with the MCTS punter, up to the loop of move_mcts: MCTS::new and
\* InternalGameState::new.
MakeMoveMCTS ==
    /\ pc = "make_move"
    /\ panic = "none"
    /\ ai = "MCTS"
    /\ nodes' = <<new_node(None)>>
    /\ iterations' = 0
    /\ SetGame(new_game(id))
    /\ pc' = "poll"
    /\ UNCHANGED <<setup_vars, rivers, panic, timeout, elapsed, step_vars,
                   applied, result>>

\* The loop condition of move_mcts.
Poll ==
    /\ pc = "poll"
    /\ panic = "none"
    /\ LET deadline == deadline_millis(timeout, overflow_checks)
       IN /\ panic' = deadline.panic
          /\ pc' = IF deadline.panic # "none" THEN pc
                   ELSE IF elapsed < deadline.val THEN "reset" ELSE "best_move"
    /\ UNCHANGED <<setup_vars, rivers, timeout, elapsed, iterations,
                   game_vars, nodes, step_vars, applied, result>>

\* The step begins with reset_game; the model follows the steps begun
\* before MaxElapsed, which is past every deadline that does not overflow.
ResetGame ==
    /\ pc = "reset"
    /\ panic = "none"
    /\ elapsed < MaxElapsed
    /\ SetGame(reset_game(G, rivers, id))
    /\ applied' = <<>>
    /\ pc' = "select"
    /\ UNCHANGED <<setup_vars, rivers, panic, timeout, elapsed, iterations,
                   nodes, step_vars, result>>

\* select, up to its loop.
SelectEnter ==
    /\ pc = "select"
    /\ panic = "none"
    /\ prev_rc' = None
    /\ \E n \in select_next(nodes, Root) : node_rc' = n
    /\ pc' = "select_loop"
    /\ UNCHANGED <<setup_vars, rivers, panic, timeout, elapsed, iterations,
                   game_vars, nodes, leaf, new_child, score, depth, applied, result>>

\* One turn of the loop of select.
SelectDescend ==
    /\ pc = "select_loop"
    /\ panic = "none"
    /\ node_rc # None
    /\ LET play == nodes[node_rc].play
           m == game_make_move(G, play, input.punters)
       IN IF play = None
          THEN /\ panic' = "select: unwrap on None"
               /\ UNCHANGED <<game_vars, applied, prev_rc, node_rc>>
          ELSE /\ panic' = m.panic
               /\ SetGame(m.val)
               /\ applied' = Append(applied, play)
               /\ prev_rc' = node_rc
               /\ \E n \in select_next(nodes, node_rc) : node_rc' = n
    /\ UNCHANGED <<setup_vars, rivers, pc, timeout, elapsed, iterations, nodes,
                   leaf, new_child, score, depth, result>>

\* select returns; step takes the root when it returned None.
SelectReturn ==
    /\ pc = "select_loop"
    /\ panic = "none"
    /\ node_rc = None
    /\ leaf' = IF prev_rc = None THEN Root ELSE prev_rc
    /\ pc' = "expand"
    /\ UNCHANGED <<setup_vars, rivers, panic, timeout, elapsed, iterations,
                   game_vars, nodes, node_rc, prev_rc, new_child, score, depth,
                   applied, result>>

\* expand on the leaf, and what step does with its result before simulate or
\* backpropagate.
Expand ==
    /\ pc = "expand"
    /\ panic = "none"
    /\ LET moves == available_actions(G)
       IN IF moves.panic # "none"
          THEN /\ panic' = moves.panic
               /\ UNCHANGED <<nodes, new_child, score, depth, pc>>
          ELSE \E mv \in IF untried_moves(nodes, leaf, moves.val) = {}
                         THEN {None}
                         ELSE untried_moves(nodes, leaf, moves.val) :
                   LET e == expand(nodes, leaf, moves.val, mv)
                   IN /\ panic' = e.panic
                      /\ nodes' = e.nodes
                      /\ new_child' = e.child
                      /\ depth' = 0
                      /\ score' = IF e.child = None THEN e.nodes[leaf].score ELSE score
                      /\ pc' = IF e.panic # "none" THEN pc
                               ELSE IF e.child = None THEN "backpropagate"
                               ELSE "simulate"
    /\ UNCHANGED <<setup_vars, rivers, timeout, elapsed, iterations, game_vars,
                   node_rc, prev_rc, leaf, applied, result>>

SimulateMove_on_board ==
    /\ pc = "simulate"
    /\ panic = "none"
    /\ depth < SIMULATION_DEPTH
    /\ LET choices == available_actions(G)
       IN /\ choices.panic = "none"
          /\ choices.val # {}
          /\ \E chosen_river \in choices.val :
                 LET m == game_make_move(G, chosen_river, input.punters)
                 IN /\ panic' = m.panic
                    /\ SetGame(m.val)
                    /\ rivers' = m.val.rivers
                    /\ applied' = Append(applied, chosen_river)
    /\ depth' = depth + 1
    /\ UNCHANGED <<setup_vars, pc, timeout, elapsed, iterations, nodes,
                   node_rc, prev_rc, leaf, new_child, score, result>>

\* One turn of the loop of simulate.
SimulateMove ==
    /\ pc = "simulate"
    /\ panic = "none"
    /\ depth < SIMULATION_DEPTH
    /\ LET choices == available_actions(G)
       IN /\ choices.panic = "none"
          /\ choices.val # {}
          /\ \E chosen_river \in choices.val :
                 LET m == game_make_move(G, chosen_river, input.punters)
                 IN /\ panic' = m.panic
                    /\ SetGame(m.val)
                    /\ applied' = Append(applied, chosen_river)
    /\ depth' = depth + 1
    /\ UNCHANGED <<setup_vars, rivers, pc, timeout, elapsed, iterations, nodes,
                   node_rc, prev_rc, leaf, new_child, score, result>>

\* simulate leaves its loop and returns g.score().
SimulateScore ==
    /\ pc = "simulate"
    /\ panic = "none"
    /\ LET choices == available_actions(G)
           sc == game_score(G, input, site_index, edges, shortest_paths)
       IN IF depth < SIMULATION_DEPTH /\ choices.panic # "none"
          THEN /\ panic' = choices.panic
               /\ UNCHANGED <<g_scores, score, pc>>
          ELSE /\ depth >= SIMULATION_DEPTH \/ choices.val = {}
               /\ panic' = sc.panic
               /\ g_scores' = sc.scores
               /\ score' = sc.val
               /\ pc' = IF sc.panic = "none" THEN "backpropagate" ELSE pc
    /\ UNCHANGED <<setup_vars, rivers, timeout, elapsed, iterations, g_status,
                   g_current_punter, g_rivers, g_available, nodes, node_rc,
                   prev_rc, leaf, new_child, depth, applied, result>>

Backpropagate_skip_terminal ==
    /\ pc = "backpropagate"
    /\ panic = "none"
    /\ nodes' = IF new_child # None THEN backpropagate(nodes, new_child, score)
                ELSE nodes
    /\ iterations' = iterations + 1
    /\ \E d \in StepDurations : elapsed' = elapsed + d
    /\ pc' = "poll"
    /\ UNCHANGED <<setup_vars, rivers, panic, timeout, game_vars, step_vars,
                   applied, result>>

\* backpropagate on the new child, or on the leaf that could not expand; the
\* step is over and the loop of move_mcts counts it.
Backpropagate ==
    /\ pc = "backpropagate"
    /\ panic = "none"
    /\ nodes' = backpropagate(nodes, IF new_child # None THEN new_child ELSE leaf, score)
    /\ iterations' = iterations + 1
    /\ \E d \in StepDurations : elapsed' = elapsed + d
    /\ pc' = "poll"
    /\ UNCHANGED <<setup_vars, rivers, panic, timeout, game_vars, step_vars,
                   applied, result>>

BestMove_dense_indices ==
    /\ pc = "best_move"
    /\ panic = "none"
    /\ LET best == best_move(nodes, Root)
       IN IF best = None
          THEN /\ panic' = "best_move: unwrap on None"
               /\ UNCHANGED <<result, pc>>
          ELSE /\ result' = Claim(id, rivers[best].source_idx,
                                  rivers[best].target_idx)
               /\ pc' = "returned"
               /\ UNCHANGED panic
    /\ UNCHANGED <<setup_vars, rivers, timeout, elapsed, iterations, game_vars,
                   nodes, step_vars, applied>>

\* MCTS::best_move and the claim make_move builds of it.
BestMove ==
    /\ pc = "best_move"
    /\ panic = "none"
    /\ LET best == best_move(nodes, Root)
       IN IF best = None
          THEN /\ panic' = "best_move: unwrap on None"
               /\ UNCHANGED <<result, pc>>
          ELSE /\ result' = Claim(id, rivers[best].source, rivers[best].target)
               /\ pc' = "returned"
               /\ UNCHANGED panic
    /\ UNCHANGED <<setup_vars, rivers, timeout, elapsed, iterations, game_vars,
                   nodes, step_vars, applied>>

Next ==
    \/ ReportTurn
    \/ SendMove
    \/ MakeMoveRandom
    \/ MakeMoveMCTS
    \/ Poll
    \/ ResetGame
    \/ SelectEnter
    \/ SelectDescend
    \/ SelectReturn
    \/ Expand
    \/ SimulateMove
    \/ SimulateScore
    \/ Backpropagate
    \/ BestMove

Spec == InitSearch /\ [][Next]_vars

----------------------------------------------------------------------------
(* Claims about the Board                                                  *)

ReportedAddMove(rs, p, s, t) ==
    add_move(binary_search_impl, site_index, edges, rs, p, s, t)

FoundRiver(s, t) ==
    find_river(binary_search_impl, site_index, edges, rivers, s, t).val

\* C1: in every Board state reached by process_turn calls that did not
\* abort, every river has a renter only if it has an owner, and its owner
\* differs from its renter.
C1_RenterImpliesOwnerAndDiffers ==
    panic = "none" =>
        \A r \in DOMAIN rivers :
            rivers[r].renter # None =>
                /\ rivers[r].owner # None
                /\ rivers[r].owner # rivers[r].renter

\* C2: a reported claim or option of punter p on the river r between s and t
\* that is applied (add_move returns) sets r.owner to p when r has no owner
\* and otherwise sets r.renter to p and keeps r.owner; no other river
\* changes.  In particular Claim{0,s,t} then Option{1,s,t} on an unowned
\* river leaves it with owner 0 and renter 1.
C2_AddMoveSetsOwnerThenRenter ==
    panic = "none" =>
        \A s \in SiteIds, t \in SiteIds :
            /\ \A p \in Punters :
                   LET out == ReportedAddMove(rivers, p, s, t)
                       r == FoundRiver(s, t)
                   IN out.panic = "none" =>
                          /\ r \in DOMAIN rivers
                          /\ {rivers[r].source, rivers[r].target} = {s, t}
                          /\ rivers[r].owner = None =>
                                 out.rivers[r] = [rivers[r] EXCEPT !.owner = p]
                          /\ rivers[r].owner # None =>
                                 out.rivers[r] = [rivers[r] EXCEPT !.renter = p]
                          /\ \A q \in DOMAIN rivers \ {r} : out.rivers[q] = rivers[q]
            /\ LET out == process_turn(binary_search_impl, site_index, edges, rivers,
                                       <<Claim(0, s, t), OptionMove(1, s, t)>>)
                   r == FoundRiver(s, t)
               IN (r # None /\ rivers[r].owner = None) =>
                      /\ out.panic = "none"
                      /\ out.rivers[r].owner = 0
                      /\ out.rivers[r].renter = 1

\* A Board on which a claim by 0 and then an option by 1 were applied to the
\* same river.
C2_Witness ==
    /\ panic = "none"
    /\ \E r \in DOMAIN rivers : rivers[r].owner = 0 /\ rivers[r].renter = 1

\* C3: a reported claim on a river whose owner is already set makes
\* process_turn abort.
C3_ClaimOnOwnedRiverAborts ==
    panic = "none" =>
        \A p \in Punters, s \in SiteIds, t \in SiteIds :
            LET r == FoundRiver(s, t)
            IN (r # None /\ rivers[r].owner # None) =>
                   process_turn(binary_search_impl, site_index, edges, rivers,
                                <<Claim(p, s, t)>>).panic # "none"

----------------------------------------------------------------------------
(* Claims about the search                                                 *)

Unowned(rs) == {r \in DOMAIN rs : rs[r].owner = None}

\* make_move has been called on the Board of this turn.
MoveAsked == pc # "idle"

\* No step is in flight: the tree is as the completed steps left it.
BetweenSteps == pc \in {"poll", "reset", "best_move", "returned"}

Kids(n) == nodes[n].children

RECURSIVE SumCounts(_, _)
SumCounts(kids, i) ==
    IF i > Len(kids) THEN 0 ELSE nodes[kids[i]].count + SumCounts(kids, i + 1)

\* C4: asked to move on a Board without an unowned river, make_move does not
\* abort, what it returns is a pass, and the root never has a child.
C4_ExhaustedBoardReturnsPass ==
    (MoveAsked /\ ai = "MCTS" /\ timeout = DEFAULT_TIMEOUT /\ Unowned(rivers) = {}) =>
        /\ panic = "none"
        /\ pc = "returned" => result.kind = "pass"
        /\ nodes # <<>> => Kids(Root) = <<>>

\* C5: when the loop of the driver ends with a root without children while
\* some river is unowned, make_move does not abort and returns a claim of an
\* unowned river.
C5_ChildlessRootFallsBackToClaim ==
    (ai = "MCTS" /\ timeout = DEFAULT_TIMEOUT /\ pc \in {"best_move", "returned"}
        /\ Kids(Root) = <<>> /\ Unowned(rivers) # {}) =>
        /\ panic = "none"
        /\ pc = "returned" =>
               \E r \in Unowned(rivers) :
                   result = Claim(id, rivers[r].source, rivers[r].target)

\* C6 as stated: after any number of completed steps every node but the root
\* has n >= 1, and every node with a child has n = 1 + the sum of its
\* children's n.
C6_EveryInternalNodeCountsOneMore ==
    (BetweenSteps /\ ai = "MCTS" /\ panic = "none") =>
        \A n \in DOMAIN nodes :
            /\ n # Root => nodes[n].count >= 1
            /\ Kids(n) # <<>> => nodes[n].count = 1 + SumCounts(Kids(n), 1)

\* C6 as amended: after any number of completed steps every node but the
\* root has n >= 1; every node but the root that has a child has
\* n = 1 + the sum of its children's n; the root, when it has a child, has
\* n = the sum of its children's n.
C6_InternalNodeCounts ==
    (BetweenSteps /\ ai = "MCTS" /\ panic = "none") =>
        \A n \in DOMAIN nodes :
            /\ n # Root => nodes[n].count >= 1
            /\ (n # Root /\ Kids(n) # <<>>) =>
                   nodes[n].count = 1 + SumCounts(Kids(n), 1)
            /\ (n = Root /\ Kids(n) # <<>>) =>
                   nodes[n].count = SumCounts(Kids(n), 1)

\* Steps were completed that left a node below the root with children of
\* its own.
C6_Witness ==
    /\ BetweenSteps
    /\ panic = "none"
    /\ \E n \in DOMAIN nodes : n # Root /\ Len(Kids(n)) >= 1 /\ Len(Kids(Root)) >= 2

\* C7: after k completed steps on the tree the root's n is k, whatever the
\* leaf of each step was.
C7_RootCountIsCompletedSteps ==
    (BetweenSteps /\ ai = "MCTS" /\ panic = "none") =>
        nodes[Root].count = iterations

\* Several steps were completed, one of them on a leaf that could not
\* expand (a Done node that was visited again).
C7_Witness ==
    /\ BetweenSteps
    /\ panic = "none"
    /\ iterations >= 3
    /\ \E n \in DOMAIN nodes :
           n # Root /\ nodes[n].status = "Done" /\ nodes[n].count >= 2

\* C8: the move the search returns is the action of the child of the root
\* with the greatest n, the first inserted of those with the greatest n.
C8_BestMoveIsFirstMostVisitedChild ==
    (pc = "returned" /\ ai = "MCTS") =>
        \E i \in 1..Len(Kids(Root)) :
            /\ \A j \in 1..Len(Kids(Root)) :
                   nodes[Kids(Root)[j]].count <= nodes[Kids(Root)[i]].count
            /\ \A j \in 1..(i - 1) :
                   nodes[Kids(Root)[j]].count < nodes[Kids(Root)[i]].count
            /\ result = Claim(id, rivers[nodes[Kids(Root)[i]].play].source,
                                  rivers[nodes[Kids(Root)[i]].play].target)

\* A move was returned from a root whose first two children share the
\* greatest n while the second has the higher mean score.
C8_Witness ==
    /\ pc = "returned"
    /\ ai = "MCTS"
    /\ Len(Kids(Root)) >= 2
    /\ nodes[Kids(Root)[1]].count = nodes[Kids(Root)[2]].count
    /\ \A j \in 1..Len(Kids(Root)) :
           nodes[Kids(Root)[j]].count <= nodes[Kids(Root)[1]].count
    /\ nodes[Kids(Root)[2]].score > nodes[Kids(Root)[1]].score

\* C9: right after reset_game the harness's rivers are the Board's,
\* available is the set of rivers without an owner on the Board, the
\* current punter is this punter and the status is Playing.
C9_ResetRestoresBoard ==
    (pc = "select" /\ panic = "none") =>
        /\ g_rivers = rivers
        /\ g_available = Unowned(rivers)
        /\ g_current_punter = id
        /\ g_status = "Playing"

\* A reset after a step that applied actions to the harness and scored it.
C9_Witness ==
    /\ pc = "select"
    /\ panic = "none"
    /\ iterations >= 1
    /\ Len(nodes) > 1
    /\ g_scores # <<>>
    /\ Unowned(rivers) # {}

\* C10: every action given to the harness's make_move is in available, and
\* without an owner in the harness, right before the call; after N calls
\* since the reset available holds N rivers less than after the reset.
C10_AppliedActionsWereAvailable ==
    /\ [][(Len(applied') = Len(applied) + 1 /\ panic' = "none") =>
             /\ applied'[Len(applied')] \in g_available
             /\ g_rivers[applied'[Len(applied')]].owner = None
             /\ g_available' = g_available \ {applied'[Len(applied')]}]_vars
    /\ []((pc \in {"select_loop", "expand", "simulate", "backpropagate"}
              /\ panic = "none") =>
             Cardinality(g_available) = Cardinality(Unowned(rivers)) - Len(applied))

\* A step that applied an action on the way down the tree and another one
\* in the playout.
C10_Witness ==
    /\ pc = "backpropagate"
    /\ panic = "none"
    /\ prev_rc # None
    /\ new_child # None
    /\ Len(applied) >= 2

\* C11: make_move leaves the Board unchanged: from its call to its return,
\* whatever number of steps the search runs, no step changes the owner or
\* the renter of a river of the Board.
C11_MakeMoveLeavesBoardUnchanged ==
    [][MoveAsked => rivers' = rivers]_vars

\* make_move returned after several steps whose playouts gave rivers of the
\* harness an owner.
C11_Witness ==
    /\ pc = "returned"
    /\ ai = "MCTS"
    /\ iterations >= 2
    /\ Len(applied) >= 1
    /\ \E r \in DOMAIN rivers : g_rivers[r].owner # rivers[r].owner

----------------------------------------------------------------------------
(* Claims about the Scorer, the distance oracle and the lookup             *)

\* The rivers of rs that punter p may traverse.
Traversable(rs, p) == {r \in DOMAIN rs : rs[r].owner = p \/ rs[r].renter = p}

\* The site indices joined to one of seen by a river of held.
Across(rs, held, seen) ==
    {rs[r].target_idx : r \in {h \in held : rs[h].source_idx \in seen}}
    \cup {rs[r].source_idx : r \in {h \in held : rs[h].target_idx \in seen}}

\* The site indices reachable from seen over rivers of held.
RECURSIVE Reachable(_, _, _)
Reachable(rs, held, seen) ==
    IF Across(rs, held, seen) \subseteq seen THEN seen
    ELSE Reachable(rs, held, seen \cup Across(rs, held, seen))

RECURSIVE SumOfSquares(_, _)
SumOfSquares(dists, sites) ==
    IF sites = {} THEN 0
    ELSE LET v == CHOOSE x \in sites : TRUE
         IN dists[v] * dists[v] + SumOfSquares(dists, sites \ {v})

\* The score of punter p on rs by the rule: over the mines from ordinal m
\* on, the squared oracle distances of the sites p reaches from the mine.
RECURSIVE RuleScore(_, _, _)
RuleScore(rs, p, m) ==
    IF m >= VecLen(input.mines) THEN 0
    ELSE SumOfSquares(shortest_paths[m],
             Reachable(rs, Traversable(rs, p), {site_index[input.mines[m]]}))
         + RuleScore(rs, p, m + 1)

\* C12: compute_scores does not abort and sets scores[p], for every punter p
\* and every ownership of the rivers, to the sum over every mine m and
\* every site v that p reaches from m over rivers whose owner or renter is
\* p of the oracle distance dist[m][v] squared.
C12_ScoresAreSquaredDistancesOverHeldRivers ==
    pc = "scored" =>
        /\ panic = "none"
        /\ DOMAIN g_scores = Punters
        /\ \A p \in Punters : g_scores[p] = RuleScore(g_rivers, p, 0)

\* Scored: a river with an owner and another punter as renter, on which the
\* renter reaches a site two rivers from a mine.
C12_Witness ==
    /\ pc = "scored"
    /\ panic = "none"
    /\ VecLen(input.mines) = 2
    /\ \E r \in DOMAIN g_rivers :
           /\ g_rivers[r].owner \notin {None, g_rivers[r].renter}
           /\ g_rivers[r].renter # None
           /\ g_scores[g_rivers[r].renter] >= 5
           /\ g_scores[g_rivers[r].owner] >= 1

\* The number of rivers on a shortest path to site index v from the set
\* seen, which is k rivers from the start, or the sentinel: every river is
\* usable, whoever owns it.
RECURSIVE Hops(_, _, _, _)
Hops(rs, seen, v, k) ==
    IF v \in seen THEN k
    ELSE IF Across(rs, DOMAIN rs, seen) \subseteq seen THEN usize_max
    ELSE Hops(rs, seen \cup Across(rs, DOMAIN rs, seen), v, k + 1)

Constructed == pc # "new"

MineIdx(m) == site_index[input.mines[m]]

\* C13: after setup dist[m][v] is, for every mine m and site v, the number
\* of rivers on a shortest path from m to v with every river usable whoever
\* owns it, and the sentinel when v is unreachable from m; dist[m][m] = 0 and
\* dist[m][v] <= dist[m][u] + 1 for every river u-v with u reachable.
C13_DistancesAreShortestPaths ==
    Constructed =>
        \A m \in DOMAIN input.mines :
            /\ DOMAIN shortest_paths[m] = DOMAIN input.sites
            /\ \A v \in DOMAIN input.sites :
                   shortest_paths[m][v] = Hops(rivers, {MineIdx(m)}, v, 0)
            /\ shortest_paths[m][MineIdx(m)] = 0
            /\ \A r \in DOMAIN rivers :
               \A u \in {rivers[r].source_idx, rivers[r].target_idx} :
                   shortest_paths[m][u] # usize_max =>
                       shortest_paths[m][other_index(rivers[r], u)]
                           <= shortest_paths[m][u] + 1

\* A constructed setup with two mines and a site two rivers from a mine, on
\* a Board where rivers have owners.
C13_Witness ==
    /\ Constructed
    /\ panic = "none"
    /\ VecLen(input.mines) = 2
    /\ \E m \in DOMAIN input.mines, v \in DOMAIN input.sites :
           shortest_paths[m][v] = 2
    /\ \A r \in DOMAIN rivers : rivers[r].owner # None

\* The rivers of the setup whose endpoints are exactly a and b.
RiversBetween(a, b) ==
    {r \in DOMAIN rivers :
        \/ rivers[r].source = a /\ rivers[r].target = b
        \/ rivers[r].source = b /\ rivers[r].target = a}

Find(a, b) == find_river(binary_search_impl, site_index, edges, rivers, a, b)

\* C14: for every pair of sites a, b of the setup, find(a,b) returns the
\* index of a river whose endpoints are exactly a and b whenever the setup
\* has such a river, and reports not-found only when it has none.
C14_FindReturnsARiverBetween ==
    Constructed =>
        \A a \in SiteIds, b \in SiteIds :
            /\ RiversBetween(a, b) # {} =>
                   Find(a, b).panic = "none" /\ Find(a, b).val \in RiversBetween(a, b)
            /\ (Find(a, b).panic = "none" /\ Find(a, b).val = None) =>
                   RiversBetween(a, b) = {}
            /\ (Find(a, b).panic = "none" /\ Find(a, b).val # None) =>
                   Find(a, b).val \in RiversBetween(a, b)

\* A Board, after a reported claim was looked up and applied, of a setup
\* with two rivers between one pair of sites, one river between another
\* pair, and no river between a third.
C14_Witness ==
    /\ Constructed
    /\ panic = "none"
    /\ \E r \in DOMAIN rivers : rivers[r].owner # None
    /\ \E a \in SiteIds, b \in SiteIds : Cardinality(RiversBetween(a, b)) = 2
    /\ \E a \in SiteIds, b \in SiteIds : Cardinality(RiversBetween(a, b)) = 1
    /\ \E a \in SiteIds, b \in SiteIds :
           a # b /\ Find(a, b).panic = "none" /\ Find(a, b).val = None

\* C15: find is symmetric: for every pair of sites a, b of the setup
\* find(a,b) and find(b,a) return the same river index, or both report
\* not-found, also when the setup lists several rivers between a and b.
C15_FindIsSymmetric ==
    Constructed =>
        \A a \in SiteIds, b \in SiteIds :
            (Find(a, b).panic = "none" /\ Find(b, a).panic = "none") =>
                Find(a, b).val = Find(b, a).val

----------------------------------------------------------------------------
(* Claims about malformed reports and setups                               *)

ReportedMove(m) ==
    ProcessMove(binary_search_impl, site_index, edges, rivers, m)

\* The first hop of the route, from hop i on, that is no river of the setup;
\* Len(route) when every hop is one.
RECURSIVE FirstUnknownHop(_, _)
FirstUnknownHop(route, i) ==
    IF i >= Len(route) THEN Len(route)
    ELSE IF RiversBetween(route[i], route[i + 1]) = {} THEN i
    ELSE FirstUnknownHop(route, i + 1)

\* C16: a reported claim, option or splurge hop whose endpoint pair is not a
\* river of the setup makes process_turn abort, and changes the ownership of
\* no river: the Board is as the moves and hops before it left it.
C16_UnknownRiverAborts ==
    panic = "none" =>
        /\ \A p \in Punters, s \in SiteIds \cup {UnknownSite},
              t \in SiteIds \cup {UnknownSite} :
               RiversBetween(s, t) = {} =>
                   \A m \in {Claim(p, s, t), OptionMove(p, s, t)} :
                       /\ ReportedMove(m).panic # "none"
                       /\ ReportedMove(m).rivers = rivers
                       /\ \A before \in {Pass(0), Claim(0, 10, 20)} :
                              process_turn(binary_search_impl, site_index, edges,
                                           rivers, <<before, m>>).panic # "none"
        /\ \A p \in Punters, route \in Routes(SiteIds \cup {UnknownSite}, MaxRoute) :
               LET hop == FirstUnknownHop(route, 1)
               IN (Len(route) >= 2 /\ hop < Len(route)) =>
                      /\ ReportedMove(Splurge(p, route)).panic # "none"
                      /\ ReportedMove(Splurge(p, route)).rivers
                             = ReportedMove(Splurge(p, SubSeq(route, 1, hop))).rivers

\* process_turn aborted on a pair of sites that no river joins, after an
\* earlier move of the turn was applied.
C16_Witness ==
    /\ panic = "add_move: unwrap on None"
    /\ \E r \in DOMAIN rivers : rivers[r].owner # None

\* The setup names a site id twice, a mine that is no site, or a river
\* endpoint that is no site.
MalformedSetup ==
    \/ \E i \in DOMAIN input.sites, j \in DOMAIN input.sites :
           i # j /\ input.sites[i] = input.sites[j]
    \/ \E m \in DOMAIN input.mines : input.mines[m] \notin SiteIds
    \/ \E r \in DOMAIN rivers :
           rivers[r].source \notin SiteIds \/ rivers[r].target \notin SiteIds

\* C17: Punter::new aborts on every malformed setup: no Punter is
\* constructed of a setup with a repeated site id, a mine that is no site or
\* a river endpoint that is no site.
C17_MalformedSetupAborts ==
    Constructed => ~MalformedSetup

----------------------------------------------------------------------------
(* Claims about the harness's score                                        *)

RECURSIVE SumOver(_, _)
SumOver(scores, ps) ==
    IF ps = {} THEN 0
    ELSE LET q == CHOOSE x \in ps : TRUE
         IN scores[q] + SumOver(scores, ps \ {q})

\* C18: score() returns the mean over the other punters q of this punter's
\* score minus q's: (P-1) times the result is myScore*(P-1) minus the sum of
\* the others' scores.  The result is kept in halves, hence the factor 2.
C18_ScoreIsMeanDifference ==
    (pc = "scored" /\ panic = "none") =>
        (input.punters - 1) * score
            = 2 * (g_scores[id] * (input.punters - 1)
                     - SumOver(g_scores, Punters \ {id}))

\* Scored with three punters: the two others score differently, and the mean
\* difference is negative and no whole number.
C18_Witness ==
    /\ pc = "scored"
    /\ panic = "none"
    /\ input.punters = 3
    /\ g_scores[0] # g_scores[2]
    /\ score < 0
    /\ score % 2 = 1

----------------------------------------------------------------------------
(* Claims about the driver's deadline and the expansion                    *)

\* The positions of a step in flight.
InStep ==
    {"reset", "select", "select_loop", "expand", "simulate", "backpropagate"}

\* C19: the driver begins a step only when the elapsed time polled before it
\* is below timeout*1000 - 150 ms; a step in flight runs to its end, where
\* the time is polled again; and the driver leaves the loop, without
\* aborting, at the first poll at which elapsed has reached that budget.
C19_DriverKeepsDeadline ==
    /\ [](pc = "reset" => elapsed < Budget(timeout))
    /\ [][(pc \in InStep) => (pc' \in InStep \cup {"poll"})]_vars
    /\ [][(pc = "poll" /\ elapsed >= Budget(timeout)) =>
              (pc' = "best_move" /\ panic' = "none")]_vars

\* The actions on the path from the root to node n.
RECURSIVE PathActions(_)
PathActions(n) ==
    IF n = Root THEN <<>>
    ELSE Append(PathActions(nodes[n].parent), nodes[n].play)

\* C20: when expand has made a child with action a under the leaf, a is
\* applied to the harness before the playout: at the start of simulate a is
\* not in available, its owner in the harness is the punter to move at the
\* leaf, and the harness was given exactly the actions on the path from the
\* root to the new child.
C20_ExpandAppliesChildAction ==
    (pc = "simulate" /\ depth = 0 /\ panic = "none") =>
        LET a == nodes[new_child].play
        IN /\ a \notin g_available
           /\ g_rivers[a].owner
                  = (id + Len(PathActions(leaf))) % input.punters
           /\ applied = PathActions(new_child)

----------------------------------------------------------------------------
(* Claims about the steps of the search                                    *)

\* The focus of the step in flight: the new child, or the leaf that could
\* not expand.
Focus == IF new_child # None THEN new_child ELSE leaf

\* A node and its ancestors.
RECURSIVE UpToRoot(_)
UpToRoot(n) == IF n = None THEN {} ELSE {n} \cup UpToRoot(nodes[n].parent)

\* terminal_score() of the harness as it is.
TerminalScore == game_score(G, input, site_index, edges, shortest_paths).val

\* C21: in every step, also one whose focus is a Terminal leaf, the value
\* added to s of the focus and of each of its ancestors is terminal_score()
\* of the harness of that step, n of each of them grows by 1, and no other
\* node changes.
C21_BackpropagatesTerminalScore ==
    [][(pc = "backpropagate" /\ pc' = "poll") =>
          \A n \in DOMAIN nodes :
              IF n \in UpToRoot(Focus)
              THEN /\ nodes'[n].count = nodes[n].count + 1
                   /\ nodes'[n].score = nodes[n].score + TerminalScore
              ELSE nodes'[n] = nodes[n]]_vars

\* The actions of the children of node n in the tree ns.
ChildActions(ns, n) ==
    {ns[ns[n].children[i]].play : i \in 1..Len(ns[n].children)}

\* C22: a node is created Expandable; it becomes Expanded exactly at the
\* expand that draws its last untried action, and its children's actions
\* are then the whole available set at the node; it becomes Terminal (Done)
\* exactly when expand finds no available action; Expanded and Terminal are
\* never left.
C22_StatusMachine ==
    [][/\ \A n \in DOMAIN nodes' \ DOMAIN nodes : nodes'[n].status = "Expandable"
       /\ \A n \in DOMAIN nodes \cap DOMAIN nodes' :
              /\ nodes[n].status \in {"Expanded", "Done"} =>
                     nodes'[n].status = nodes[n].status
              /\ (nodes[n].status = "Expandable" /\ nodes'[n].status = "Expanded") =>
                     /\ pc = "expand"
                     /\ n = leaf
                     /\ Cardinality(untried_moves(nodes, n, g_available)) = 1
                     /\ ChildActions(nodes', n) = g_available
              /\ (nodes[n].status = "Expandable" /\ nodes'[n].status = "Done") =>
                     /\ pc = "expand"
                     /\ n = leaf
                     /\ g_available = {}
       /\ (pc = "expand" /\ panic' = "none") =>
              /\ g_available = {} => nodes'[leaf].status = "Done"
              /\ Cardinality(untried_moves(nodes, leaf, g_available)) = 1 =>
                     nodes'[leaf].status = "Expanded"
              /\ Cardinality(untried_moves(nodes, leaf, g_available)) > 1 =>
                     nodes'[leaf].status = "Expandable"]_vars

\* A tree with an Expanded node of several children, a node that is still
\* Expandable, and a Terminal node below the root.
C22_Witness ==
    /\ BetweenSteps
    /\ panic = "none"
    /\ \E n \in DOMAIN nodes :
           nodes[n].status = "Expanded" /\ Len(Kids(n)) >= 2
    /\ \E n \in DOMAIN nodes : nodes[n].status = "Expandable"
    /\ \E n \in DOMAIN nodes : n # Root /\ nodes[n].status = "Done"

RECURSIVE SeqToSet(_)
SeqToSet(q) == IF q = <<>> THEN {} ELSE {Head(q)} \cup SeqToSet(Tail(q))

\* The rivers available in the game state of node n: those without an owner
\* on the Board, less the actions on the path from the root to n.
AvailableAt(n) == Unowned(rivers) \ SeqToSet(PathActions(n))

\* C23: at all times the children of a node carry pairwise distinct
\* actions, each a river available in the game state reached by applying the
\* path from the root to the node to the Board; a node has no more children
\* than available actions.
C23_ChildrenAreDistinctAvailableActions ==
    panic = "none" =>
        \A n \in DOMAIN nodes :
            /\ \A i \in 1..Len(Kids(n)), j \in 1..Len(Kids(n)) :
                   i # j => nodes[Kids(n)[i]].play # nodes[Kids(n)[j]].play
            /\ ChildActions(nodes, n) \subseteq AvailableAt(n)
            /\ Len(Kids(n)) <= Cardinality(AvailableAt(n))

\* A tree on a Board with an owned river: the root has a child for each of
\* its available actions, and one of them has a child of its own.
C23_Witness ==
    /\ panic = "none"
    /\ nodes # <<>>
    /\ Unowned(rivers) # DOMAIN rivers
    /\ Len(Kids(Root)) = Cardinality(AvailableAt(Root))
    /\ Len(Kids(Root)) >= 2
    /\ \E n \in DOMAIN nodes :
           n # Root /\ Len(Kids(n)) = Cardinality(AvailableAt(n)) /\ Kids(n) # <<>>

\* C24: a step whose leaf has an available action adds exactly one node to
\* the tree, as the last child of the leaf, and at the end of the step that
\* node has n = 1 and s equal to the score of the step's simulation; a step
\* whose leaf has no available action adds no node; no other part of a step
\* adds or removes a node.  After the first step on a Board with available
\* rivers root.n = 1 and the root has exactly one child.
C24_StepAddsOneNode ==
    /\ [][(pc = "expand" /\ panic' = "none") =>
              IF g_available # {}
              THEN /\ Len(nodes') = Len(nodes) + 1
                   /\ new_child' = Len(nodes')
                   /\ nodes'[new_child'].parent = leaf
                   /\ nodes'[leaf].children = Append(Kids(leaf), new_child')
              ELSE /\ Len(nodes') = Len(nodes)
                   /\ new_child' = None]_vars
    /\ [][(pc \in InStep \ {"expand"}) => Len(nodes') = Len(nodes)]_vars
    /\ []((pc = "poll" /\ iterations >= 1 /\ new_child # None) =>
              /\ new_child = Len(nodes)
              /\ nodes[new_child].count = 1
              /\ nodes[new_child].score = TerminalScore
              /\ nodes[new_child].score = score)
    /\ []((pc = "poll" /\ iterations = 1 /\ Unowned(rivers) # {}) =>
              /\ nodes[Root].count = 1
              /\ Len(Kids(Root)) = 1
              /\ Len(nodes) = 2)

\* The end of a later step that added a node below a child of the root,
\* with a simulation score that is not zero.
C24_Witness ==
    /\ pc = "poll"
    /\ panic = "none"
    /\ iterations >= 3
    /\ new_child # None
    /\ leaf # Root
    /\ nodes[new_child].parent = leaf
    /\ score # 0

\* The position of river r on the path q, 0 when it is not on it.
RECURSIVE PositionOn(_, _)
PositionOn(q, r) ==
    IF q = <<>> THEN 0
    ELSE IF q[Len(q)] = r THEN Len(q)
    ELSE PositionOn(SubSeq(q, 1, Len(q) - 1), r)

\* The Board with the actions of path q applied in order by the punters in
\* turn, this punter first.
BoardAfter(q) ==
    [r \in DOMAIN rivers |->
        IF PositionOn(q, r) = 0 THEN rivers[r]
        ELSE [rivers[r] EXCEPT
                 !.owner = (id + PositionOn(q, r) - 1) % input.punters]]

\* C25: select returns a leaf that is not Expanded and whose strict
\* ancestors are all Expanded (the root when the root is not Expanded), and
\* on return the harness is the reset state with exactly the actions on the
\* path from the root to the leaf applied, in path order.
C25_SelectReturnsFrontierLeaf ==
    (pc = "expand" /\ panic = "none") =>
        /\ nodes[leaf].status # "Expanded"
        /\ \A a \in UpToRoot(leaf) \ {leaf} : nodes[a].status = "Expanded"
        /\ nodes[Root].status # "Expanded" => leaf = Root
        /\ applied = PathActions(leaf)
        /\ g_rivers = BoardAfter(PathActions(leaf))
        /\ g_available = AvailableAt(leaf)
        /\ g_current_punter = (id + Len(PathActions(leaf))) % input.punters

\* select returned a leaf two levels below the root, on a Board with an
\* owned river.
C25_Witness ==
    /\ pc = "expand"
    /\ panic = "none"
    /\ leaf # Root
    /\ nodes[leaf].parent # Root
    /\ Len(applied) = 2
    /\ Unowned(rivers) # DOMAIN rivers

\* The step applies one more action to the harness.
Applies == Len(applied') = Len(applied) + 1 /\ panic' = "none"

\* C26: in the harness the k-th apply after a reset, k counted from 0, gives
\* the river to punter (me + k) mod P, and the status changes from Playing
\* to Finished at exactly the apply that leaves available empty.
C26_AppliesTakeTurns ==
    /\ [][Applies =>
             LET k == Len(applied)
                 r == applied'[k + 1]
             IN /\ g_status = "Playing"
                /\ g_rivers[r].owner = None
                /\ g_rivers'[r].owner = (id + k) % input.punters
                /\ \A x \in DOMAIN g_rivers \ {r} : g_rivers'[x] = g_rivers[x]
                /\ g_available' = g_available \ {r}
                /\ g_status' = IF g_available' = {} THEN "Finished"
                               ELSE "Playing"]_vars
    /\ [][(g_status = "Playing" /\ g_status' = "Finished") => Applies]_vars
    /\ [](pc \in InStep =>
             \A k \in 1..Len(applied) :
                 g_rivers[applied[k]].owner = (id + k - 1) % input.punters)

\* Three applies after a reset by punter 1 finished the game: the third
\* river went to punter 1 again.
C26_Witness ==
    /\ pc \in InStep
    /\ panic = "none"
    /\ id = 1
    /\ Len(applied) = 3
    /\ g_status = "Finished"
    /\ g_rivers[applied[3]].owner = 1
    /\ g_rivers[applied[2]].owner = 0

\* C27: whenever make_move returns a claim chosen by the search, the claim
\* carries this punter's own id and the referee SiteIds, not the dense
\* indices, of the two endpoints of a river whose owner is unset on the
\* Board at the time of the call.
C27_SearchClaimsAnUnownedRiver ==
    (pc = "returned" /\ ai = "MCTS") =>
        /\ result.kind = "claim"
        /\ result.punter = id
        /\ \E r \in Unowned(rivers) :
               /\ result.route = <<rivers[r].source, rivers[r].target>>
               /\ result.route[1] = input.sites[rivers[r].source_idx]
               /\ result.route[2] = input.sites[rivers[r].target_idx]
        /\ \A k \in 1..2 : result.route[k] \in SiteIds

\* The search returned a claim on a Board where another river was owned.
C27_Witness ==
    /\ pc = "returned"
    /\ ai = "MCTS"
    /\ panic = "none"
    /\ iterations >= 2
    /\ Unowned(rivers) # DOMAIN rivers
    /\ Cardinality(Unowned(rivers)) >= 2
    /\ result.kind = "claim"

\* The panics of the asserts on the status of the harness.
PreconditionPanics ==
    {"make_move: assert status == Playing",
     "available_actions: assert status != NotStarted",
     "score: assert status != NotStarted"}

\* C28: in any sequence of reset and step on a Board of any ownership state
\* the preconditions of the harness operations are never violated: apply is
\* only invoked while the status is Playing, and available_actions and
\* terminal_score are never invoked while the status is NotStarted.
C28_HarnessPreconditionsHold ==
    /\ panic \notin PreconditionPanics
    /\ (pc = "select_loop" /\ panic = "none" /\ node_rc # None) =>
           g_status = "Playing"
    /\ (pc = "simulate" /\ panic = "none" /\ depth < SIMULATION_DEPTH
            /\ g_available # {}) =>
           g_status = "Playing"
    /\ (pc \in {"expand", "simulate"} /\ panic = "none") =>
           g_status # "NotStarted"

\* On a Board with an owned river the applies of a later step finished the
\* game, and simulate is about to ask for the available actions and the score.
C28_Witness ==
    /\ pc = "simulate"
    /\ panic = "none"
    /\ iterations >= 2
    /\ Len(applied) >= 2
    /\ g_status = "Finished"
    /\ Unowned(rivers) # DOMAIN rivers

====
